---- MODULE Spec2Model ----
(***************************************************************************)
(* Model of the two text parsers of kmscale-pubs:                          *)
(*   scripts/download_pdfs.py   extract_entries, parse_fields              *)
(*   scripts/add_arxiv_paper.py extract_basic_metadata                     *)
(* A Python str is a sequence of one-character strings.  Cursors are       *)
(* 0-based as in the code; At and Slice translate to TLA+'s 1-based        *)
(* sequences.                                                              *)
(***************************************************************************)
EXTENDS Integers, Sequences, FiniteSets, TLC

VARIABLES
    input,        \* how the bibliography text was laid out (family, parts)
    text,         \* the bibliography text handed to extract_entries / parse_fields
    phase,        \* "scan" | "key" | "fields" | "done"
    idx,          \* extract_entries: search cursor
    entries,      \* extract_entries: entries emitted so far
    scan_stop,    \* extract_entries: why and where the loop broke
    key,          \* parse_fields: [found, str]
    fields_text,  \* parse_fields: field-list text
    i,            \* parse_fields: cursor in fields_text
    fields,       \* parse_fields: ordered mapping, sequence of [name, value]
    last,         \* parse_fields: the field handled by the latest iteration
    stalled,      \* a completed loop iteration did not advance its cursor
    raised,       \* an exception was raised
    page,         \* the page text handed to extract_basic_metadata
    stage,        \* "read" | "title" | "authors" | "banner" | "done"
    header_lines, \* extract_basic_metadata: the lines before the abstract
    arxiv_line,   \* extract_basic_metadata: the banner line
    title_lines,  \* extract_basic_metadata: the lines of the title
    title_end_index, \* extract_basic_metadata: index of the title's last line
    author_lines, \* extract_basic_metadata: the accepted author lines
    metadata      \* extract_basic_metadata: the returned dict

bibvars == <<input, text, phase, idx, entries, scan_stop, key, fields_text, i,
             fields, last, stalled>>

metavars == <<page, stage, header_lines, arxiv_line, title_lines, title_end_index,
              author_lines, metadata>>

vars == <<bibvars, metavars, raised>>

----------------------------------------------------------------------------
(* Python str primitives *)

Min(a, b) == IF a < b THEN a ELSE b

At(s, p) == s[p + 1]

\* s[a:b] for 0 <= a, 0 <= b
Slice(s, a, b) == SubSeq(s, a + 1, Min(b, Len(s)))

\* characters str.strip() removes (the ASCII ones a text file carries)
Whitespace == {" ", "\t", "\n", "\r"}

\* \w of the re module
Uppers == <<"A", "B", "C", "D", "E", "F", "G", "H", "I", "J", "K", "L", "M",
            "N", "O", "P", "Q", "R", "S", "T", "U", "V", "W", "X", "Y", "Z">>
Lowers == <<"a", "b", "c", "d", "e", "f", "g", "h", "i", "j", "k", "l", "m",
            "n", "o", "p", "q", "r", "s", "t", "u", "v", "w", "x", "y", "z">>
Digits == {"0", "1", "2", "3", "4", "5", "6", "7", "8", "9"}

UpperChars == {Uppers[n] : n \in 1..Len(Uppers)}
LowerChars == {Lowers[n] : n \in 1..Len(Lowers)}

\* \w of the re module
WordChars == UpperChars \cup LowerChars \cup Digits \cup {"_"}

LowerChar(c) ==
    IF \E n \in 1..Len(Uppers) : Uppers[n] = c
    THEN Lowers[CHOOSE n \in 1..Len(Uppers) : Uppers[n] = c]
    ELSE c

Lower(s) == [n \in 1..Len(s) |-> LowerChar(s[n])]

RECURSIVE LStrip(_)
LStrip(s) == IF s # <<>> /\ Head(s) \in Whitespace THEN LStrip(Tail(s)) ELSE s

RECURSIVE RStrip(_)
RStrip(s) ==
    IF s # <<>> /\ s[Len(s)] \in Whitespace THEN RStrip(SubSeq(s, 1, Len(s) - 1)) ELSE s

Strip(s) == RStrip(LStrip(s))

\* s.find(c, from): least index >= from holding c, else -1
RECURSIVE Find(_, _, _)
Find(s, c, from) ==
    IF from >= Len(s) THEN -1
    ELSE IF At(s, from) = c THEN from
    ELSE Find(s, c, from + 1)

\* while p < len(s) and s[p] in C: p += 1
RECURSIVE SpanWhile(_, _, _)
SpanWhile(s, p, C) ==
    IF p < Len(s) /\ At(s, p) \in C THEN SpanWhile(s, p + 1, C) ELSE p

\* while p < len(s) and s[p] not in C: p += 1
RECURSIVE SpanUntil(_, _, _)
SpanUntil(s, p, C) ==
    IF p < Len(s) /\ At(s, p) \notin C THEN SpanUntil(s, p + 1, C) ELSE p

----------------------------------------------------------------------------
(* extract_entries *)

\* ENTRY_START_RE anchored at p: the match's end, or -1.  The classes \w, \s
\* and { are disjoint, so the greedy runs are the only way to match.
EntryStartAt(s, p) ==
    IF p < Len(s) /\ At(s, p) = "@"
    THEN LET w  == SpanWhile(s, p + 1, WordChars)
             sp == SpanWhile(s, w, Whitespace)
         IN  IF w > p + 1 /\ sp < Len(s) /\ At(s, sp) = "{" THEN sp + 1 ELSE -1
    ELSE -1

\* ENTRY_START_RE.search(text, idx): leftmost match at or after idx
RECURSIVE EntryStartSearch(_, _)
EntryStartSearch(s, from) ==
    IF from >= Len(s) THEN [found |-> FALSE, start |-> -1, end |-> -1]
    ELSE IF EntryStartAt(s, from) # -1
         THEN [found |-> TRUE, start |-> from, end |-> EntryStartAt(s, from)]
         ELSE EntryStartSearch(s, from + 1)

\* the for loop over range(brace_idx, len(text)): end, or -1 for None
RECURSIVE DepthScan(_, _, _)
DepthScan(s, pos, depth) ==
    IF pos >= Len(s) THEN -1
    ELSE IF At(s, pos) = "{" THEN DepthScan(s, pos + 1, depth + 1)
    ELSE IF At(s, pos) = "}"
         THEN IF depth - 1 = 0 THEN pos + 1 ELSE DepthScan(s, pos + 1, depth - 1)
    ELSE DepthScan(s, pos + 1, depth)

\* OnUnclosed, emitting what there is of the entry
OnUnclosedEmitPartial(s, start, es) == Append(es, Slice(s, start, Len(s)))

\* what the loop does once a match has no end
OnUnclosed(s, start, es) == es

\* EntryStep, resuming the search inside the entry just emitted
EntryStepRescan(s, from, es) ==
    LET m == EntryStartSearch(s, from) IN
    IF ~m.found
    THEN [brk |-> TRUE, why |-> "nomatch", at |-> -1, idx |-> from, entries |-> es]
    ELSE LET end == DepthScan(s, m.end - 1, 0) IN
         IF end = -1
         THEN [brk |-> TRUE, why |-> "unclosed", at |-> m.start, idx |-> from, entries |-> es]
         ELSE [brk |-> FALSE, why |-> "", at |-> -1, idx |-> m.end,
               entries |-> Append(es, Slice(s, m.start, end))]

\* one iteration of the while True loop
EntryStep(s, from, es) ==
    LET m == EntryStartSearch(s, from) IN
    IF ~m.found
    THEN [brk |-> TRUE, why |-> "nomatch", at |-> -1, idx |-> from, entries |-> es]
    ELSE LET brace_idx == Find(s, "{", m.end - 1) IN
         IF brace_idx = -1
         THEN [brk |-> TRUE, why |-> "nobrace", at |-> m.start, idx |-> from, entries |-> es]
         ELSE LET end == DepthScan(s, brace_idx, 0) IN
              IF end = -1
              THEN [brk |-> TRUE, why |-> "unclosed", at |-> m.start, idx |-> from,
                    entries |-> OnUnclosed(s, m.start, es)]
              ELSE [brk |-> FALSE, why |-> "", at |-> -1, idx |-> end,
                    entries |-> Append(es, Slice(s, m.start, end))]

\* the whole function; the fuel is the longest run a strictly advancing
\* cursor can make
RECURSIVE EntryLoop(_, _, _, _)
EntryLoop(s, from, es, fuel) ==
    LET r == EntryStep(s, from, es) IN
    IF r.brk \/ fuel = 0 THEN r.entries
    ELSE EntryLoop(s, r.idx, r.entries, fuel - 1)

extract_entries(s) == EntryLoop(s, 0, <<>>, Len(s))

----------------------------------------------------------------------------
(* parse_fields *)

\* KEY_RE anchored at p: the span of group 1, the match ending with it
KeyAt(s, p) ==
    IF p < Len(s) /\ At(s, p) = "@"
    THEN LET w  == SpanWhile(s, p + 1, WordChars)
             sp == SpanWhile(s, w, Whitespace)
         IN  IF w > p + 1 /\ sp < Len(s) /\ At(s, sp) = "{"
             THEN LET g    == SpanWhile(s, sp + 1, Whitespace)
                      gend == SpanUntil(s, g, Whitespace \cup {","})
                  IN  IF gend > g
                      THEN [found |-> TRUE, gstart |-> g, end |-> gend]
                      ELSE [found |-> FALSE, gstart |-> -1, end |-> -1]
             ELSE [found |-> FALSE, gstart |-> -1, end |-> -1]
    ELSE [found |-> FALSE, gstart |-> -1, end |-> -1]

\* KEY_RE.search(entry_text)
RECURSIVE KeySearch(_, _)
KeySearch(s, from) ==
    IF from >= Len(s) THEN [found |-> FALSE, gstart |-> -1, end |-> -1]
    ELSE IF KeyAt(s, from).found THEN KeyAt(s, from)
    ELSE KeySearch(s, from + 1)

\* if fields_text.endswith("}"): fields_text = fields_text[:-1]
DropFinalBrace(s) ==
    IF s # <<>> /\ s[Len(s)] = "}" THEN SubSeq(s, 1, Len(s) - 1) ELSE s

\* the function up to its scanning loop: the key, and the field-list text
\* when there is one
KeyAndBody(entry_text) ==
    LET m == KeySearch(entry_text, 0) IN
    IF ~m.found
    THEN [found |-> FALSE, key |-> <<>>, body |-> FALSE, fields_text |-> <<>>]
    ELSE LET k          == Strip(Slice(entry_text, m.gstart, m.end))
             body_start == Find(entry_text, ",", m.end)
         IN  IF body_start = -1
             THEN [found |-> TRUE, key |-> k, body |-> FALSE, fields_text |-> <<>>]
             ELSE [found |-> TRUE, key |-> k, body |-> TRUE,
                   fields_text |->
                       DropFinalBrace(Strip(Slice(entry_text, body_start + 1,
                                                  Len(entry_text))))]

\* fields[name] = value on a dict that keeps insertion order
DictSet(d, name, value) ==
    IF \E n \in 1..Len(d) : d[n].name = name
    THEN [n \in 1..Len(d) |->
              IF d[n].name = name THEN [name |-> name, value |-> value] ELSE d[n]]
    ELSE Append(d, [name |-> name, value |-> value])

\* BraceLoop, not counting the braces that open inside the value
RECURSIVE BraceLoopNoNesting(_, _, _)
BraceLoopNoNesting(ft, p, depth) ==
    IF p < Len(ft) /\ depth > 0
    THEN IF At(ft, p) = "}" THEN BraceLoopNoNesting(ft, p + 1, depth - 1)
         ELSE BraceLoopNoNesting(ft, p + 1, depth)
    ELSE p

\* the loop of the branch for a value opened by a brace
RECURSIVE BraceLoop(_, _, _)
BraceLoop(ft, p, depth) ==
    IF p < Len(ft) /\ depth > 0
    THEN IF At(ft, p) = "{" THEN BraceLoop(ft, p + 1, depth + 1)
         ELSE IF At(ft, p) = "}" THEN BraceLoop(ft, p + 1, depth - 1)
         ELSE BraceLoop(ft, p + 1, depth)
    ELSE p

\* BraceValue, keeping the closing brace in the value
BraceValueKeepsClose(ft, p) ==
    LET value_start == p + 1
        q           == BraceLoop(ft, value_start, 1)
    IN  [value |-> Strip(Slice(ft, value_start, q)), i |-> q]

\* delimiter "{" at p
BraceValue(ft, p) ==
    LET value_start == p + 1
        q           == BraceLoop(ft, value_start, 1)
    IN  [value |-> Strip(Slice(ft, value_start, q - 1)), i |-> q]

\* delimiter '"' at p
QuoteValue(ft, p) ==
    LET value_start == p + 1
        q           == SpanUntil(ft, value_start, {"\""})
    IN  [value |-> Strip(Slice(ft, value_start, q)), i |-> q + 1]

\* any other first character at p
BareValue(ft, p) ==
    LET q == SpanUntil(ft, p, {",", "\n"})
    IN  [value |-> Strip(Slice(ft, p, q)), i |-> q]

\* ReadDelimiter without the check: the read past the end raises
ReadDelimiterUnchecked(ft, p) ==
    IF p >= Len(ft)
    THEN [brk |-> FALSE, raised |-> TRUE, ch |-> ""]
    ELSE [brk |-> FALSE, raised |-> FALSE, ch |-> At(ft, p)]

\* the check before the read of the delimiter, and the read
ReadDelimiter(ft, p) ==
    IF p >= Len(ft)
    THEN [brk |-> TRUE, raised |-> FALSE, ch |-> ""]
    ELSE [brk |-> FALSE, raised |-> FALSE, ch |-> At(ft, p)]

\* the closing loop of an iteration: past the next comma of the line
RECURSIVE SkipToComma(_, _)
SkipToComma(ft, p) ==
    IF p < Len(ft) /\ At(ft, p) # "\n"
    THEN IF At(ft, p) = "," THEN p + 1 ELSE SkipToComma(ft, p + 1)
    ELSE p

NoField == [mode |-> "none", name |-> <<>>, value |-> <<>>, open |-> -1]

\* one iteration of the while i < length loop, entered with p < length
FieldStep(ft, p, d) ==
    LET stop(q, r) == [brk |-> TRUE, i |-> q, fields |-> d, last |-> NoField, raised |-> r]
        p1 == SpanWhile(ft, p, {"\n", "\r", "\t", " ", ","})
    IN
    IF p1 >= Len(ft) THEN stop(p1, FALSE)
    ELSE
    LET p2        == SpanUntil(ft, p1, {"="})
        field_key == Lower(Strip(Slice(ft, p1, p2)))
    IN
    IF field_key = <<>> THEN stop(p2, FALSE)
    ELSE
    LET p3 == SpanWhile(ft, p2 + 1, {" ", "\t", "\n", "\r"})
        rd == ReadDelimiter(ft, p3)
    IN
    IF rd.brk \/ rd.raised THEN stop(p3, rd.raised)
    ELSE
    LET mode == IF rd.ch = "{" THEN "brace" ELSE IF rd.ch = "\"" THEN "quote" ELSE "bare"
        v    == IF mode = "brace" THEN BraceValue(ft, p3)
                ELSE IF mode = "quote" THEN QuoteValue(ft, p3)
                ELSE BareValue(ft, p3)
    IN  [brk    |-> FALSE,
         i      |-> SkipToComma(ft, v.i),
         fields |-> DictSet(d, field_key, v.value),
         last   |-> [mode |-> mode, name |-> field_key, value |-> v.value, open |-> p3],
         raised |-> FALSE]

RECURSIVE FieldLoop(_, _, _, _)
FieldLoop(ft, p, d, fuel) ==
    IF p >= Len(ft) \/ fuel = 0 THEN d
    ELSE LET r == FieldStep(ft, p, d) IN
         IF r.brk THEN r.fields ELSE FieldLoop(ft, r.i, r.fields, fuel - 1)

\* the whole function: key None is found = FALSE
parse_fields(entry_text) ==
    LET kb == KeyAndBody(entry_text) IN
    [found  |-> kb.found,
     key    |-> kb.key,
     fields |-> IF kb.body THEN FieldLoop(kb.fields_text, 0, <<>>, Len(kb.fields_text))
                ELSE <<>>]

----------------------------------------------------------------------------
(* extract_basic_metadata *)

HeaderLimit == 80

\* s.startswith(prefix)
StartsWith(s, prefix) ==
    Len(s) >= Len(prefix) /\ SubSeq(s, 1, Len(prefix)) = prefix

\* sub in s
Contains(s, sub) ==
    \E n \in 0..(Len(s) - Len(sub)) : SubSeq(s, n + 1, n + Len(sub)) = sub

\* sep.join(ss)
RECURSIVE Join(_, _)
Join(ss, sep) ==
    IF ss = <<>> THEN <<>>
    ELSE IF Len(ss) = 1 THEN ss[1]
    ELSE ss[1] \o sep \o Join(Tail(ss), sep)

\* text.splitlines(): a line ends at \n, \r or \r\n; no empty last line
RECURSIVE SplitLines(_)
SplitLines(s) ==
    IF s = <<>> THEN <<>>
    ELSE LET e == SpanUntil(s, 0, {"\n", "\r"}) IN
         IF e = Len(s) THEN <<s>>
         ELSE LET skip == IF At(s, e) = "\r" /\ e + 1 < Len(s) /\ At(s, e + 1) = "\n"
                          THEN 2 ELSE 1
              IN  <<Slice(s, 0, e)>> \o SplitLines(Slice(s, e + skip, Len(s)))

\* [line.rstrip() for line in text.splitlines()]
LinesOf(s) == LET ls == SplitLines(s) IN [n \in 1..Len(ls) |-> RStrip(ls[n])]

\* s.replace("  ", " "): one pass, left to right, over non-overlapping pairs
RECURSIVE ReplaceDoubleSpace(_)
ReplaceDoubleSpace(s) ==
    IF Len(s) < 2 THEN s
    ELSE IF s[1] = " " /\ s[2] = " "
         THEN <<" ">> \o ReplaceDoubleSpace(SubSeq(s, 3, Len(s)))
         ELSE <<s[1]>> \o ReplaceDoubleSpace(Tail(s))

Abstract == <<"a", "b", "s", "t", "r", "a", "c", "t">>
Banner   == <<"a", "r", "X", "i", "v", ":">>

\* the loop over lines[:80]: the header lines and the banner line
RECURSIVE HeaderLoop(_, _, _, _)
HeaderLoop(ls, n, header, banner) ==
    IF n > Len(ls) THEN [header_lines |-> header, arxiv_line |-> banner]
    ELSE LET stripped == Strip(ls[n]) IN
         IF StartsWith(Lower(stripped), Abstract)
         THEN [header_lines |-> header, arxiv_line |-> banner]
         ELSE HeaderLoop(ls, n + 1, Append(header, ls[n]),
                         IF StartsWith(stripped, Banner) THEN stripped ELSE banner)

Header(s) ==
    LET ls == LinesOf(s) IN HeaderLoop(SubSeq(ls, 1, Min(HeaderLimit, Len(ls))), 1, <<>>, <<>>)

affiliation_keywords ==
    { <<"u", "n", "i", "v", "e", "r", "s", "i", "t", "y">>,
      <<"i", "n", "s", "t", "i", "t", "u", "t", "e">>,
      <<"d", "e", "p", "a", "r", "t", "m", "e", "n", "t">>,
      <<"l", "a", "b", "o", "r", "a", "t", "o", "r", "y">>,
      <<"c", "e", "n", "t", "r", "e">>,
      <<"c", "e", "n", "t", "e", "r">>,
      <<"s", "c", "h", "o", "o", "l">>,
      <<"c", "o", "l", "l", "e", "g", "e">>,
      <<"o", "b", "s", "e", "r", "v", "a", "t", "o", "r", "y">>,
      <<"a", "c", "a", "d", "e", "m", "y">>,
      <<"f", "a", "c", "u", "l", "t", "y">> }

looks_like_affiliation(line) ==
    \/ \E keyword \in affiliation_keywords : Contains(Lower(line), keyword)
    \/ \E n \in 1..Len(line) : line[n] = "@"

\* TitleLoop, keeping a title only when a blank line ended it
RECURSIVE TitleLoopNeedsBlank(_, _, _, _, _)
TitleLoopNeedsBlank(header, n, started, lines_so_far, end_index) ==
    IF n >= Len(header)
    THEN [title_lines |-> <<>>, title_end_index |-> 0]
    ELSE LET stripped == Strip(At(header, n)) IN
         IF StartsWith(stripped, Banner)
         THEN TitleLoopNeedsBlank(header, n + 1, started, lines_so_far, end_index)
         ELSE IF ~started
         THEN IF stripped # <<>>
              THEN TitleLoopNeedsBlank(header, n + 1, TRUE, Append(lines_so_far, stripped), n)
              ELSE TitleLoopNeedsBlank(header, n + 1, FALSE, lines_so_far, end_index)
         ELSE IF stripped = <<>>
         THEN [title_lines |-> lines_so_far, title_end_index |-> end_index]
         ELSE TitleLoopNeedsBlank(header, n + 1, TRUE, Append(lines_so_far, stripped), n)

\* the title loop: n is the 0-based index into header_lines
RECURSIVE TitleLoop(_, _, _, _, _)
TitleLoop(header, n, started, lines_so_far, end_index) ==
    IF n >= Len(header)
    THEN [title_lines |-> lines_so_far, title_end_index |-> end_index]
    ELSE LET stripped == Strip(At(header, n)) IN
         IF StartsWith(stripped, Banner)
         THEN TitleLoop(header, n + 1, started, lines_so_far, end_index)
         ELSE IF ~started
         THEN IF stripped # <<>>
              THEN TitleLoop(header, n + 1, TRUE, Append(lines_so_far, stripped), n)
              ELSE TitleLoop(header, n + 1, FALSE, lines_so_far, end_index)
         ELSE IF stripped = <<>>
         THEN [title_lines |-> lines_so_far, title_end_index |-> end_index]
         ELSE TitleLoop(header, n + 1, TRUE, Append(lines_so_far, stripped), n)

\* " ".join(title_lines).replace("  ", " ").strip()
TitleOf(lines_so_far) == Strip(ReplaceDoubleSpace(Join(lines_so_far, <<" ">>)))

\* name_pattern as the re module reads it from the raw string: the class
\* [\\w'.-] holds a backslash, w, ', . and -, and \\s+ is a backslash
\* followed by one or more s
NameClass == {"\\", "w", "'", ".", "-"}

\* where a token [A-Z][\\w'.-]+ that starts at p can end
TokenEnds(s, p) ==
    IF p < Len(s) /\ At(s, p) \in UpperChars
    THEN {q \in (p + 2)..Len(s) : \A r \in (p + 1)..(q - 1) : At(s, r) \in NameClass}
    ELSE {}

\* where a separator \\s+ that starts at q can end
SeparatorEnds(s, q) ==
    IF q < Len(s) /\ At(s, q) = "\\"
    THEN {r \in (q + 2)..Len(s) : \A t \in (q + 1)..(r - 1) : At(s, t) = "s"}
    ELSE {}

\* where the n-th token can end
RECURSIVE TokensEnd(_, _)
TokensEnd(s, n) ==
    IF n = 1 THEN TokenEnds(s, 0)
    ELSE UNION {UNION {TokenEnds(s, r) : r \in SeparatorEnds(s, q)} : q \in TokensEnd(s, n - 1)}

\* name_pattern.match(stripped)
name_pattern(s) == \E n \in 2..4 : Len(s) \in TokensEnd(s, n)

\* the loop over remaining_lines: n is the 0-based index
RECURSIVE AuthorLoop(_, _, _)
AuthorLoop(remaining, n, accepted) ==
    IF n >= Len(remaining) THEN accepted
    ELSE LET stripped  == Strip(At(remaining, n))
             next_line == IF n + 1 < Len(remaining) THEN Strip(At(remaining, n + 1)) ELSE <<>>
         IN  IF stripped = <<>> \/ looks_like_affiliation(stripped)
             THEN AuthorLoop(remaining, n + 1, accepted)
             ELSE IF \E m \in 1..Len(stripped) : stripped[m] = ","
             THEN AuthorLoop(remaining, n + 1, accepted)
             ELSE IF name_pattern(stripped) \/ looks_like_affiliation(next_line)
             THEN AuthorLoop(remaining, n + 1, Append(accepted, stripped))
             ELSE AuthorLoop(remaining, n + 1, accepted)

AuthorLines(header, end_index) ==
    AuthorLoop(Slice(header, end_index + 1, Len(header)), 0, <<>>)

\* re.sub of single characters of a class by nothing
RemoveChars(s, C) == SelectSeq(s, LAMBDA c : c \notin C)

\* re.sub(r"\s{2,}", " ", s)
RECURSIVE CollapseWhitespace(_)
CollapseWhitespace(s) ==
    IF s = <<>> THEN <<>>
    ELSE LET e == SpanWhile(s, 0, Whitespace) IN
         IF e >= 2 THEN <<" ">> \o CollapseWhitespace(Slice(s, e, Len(s)))
         ELSE <<s[1]>> \o CollapseWhitespace(Tail(s))

\* s.strip(chars)
RECURSIVE StripChars(_, _)
StripChars(s, C) ==
    IF s # <<>> /\ Head(s) \in C THEN StripChars(Tail(s), C)
    ELSE IF s # <<>> /\ s[Len(s)] \in C THEN StripChars(SubSeq(s, 1, Len(s) - 1), C)
    ELSE s

\* the author field from the author lines
AuthorOf(accepted) ==
    LET authors_raw == Strip(ReplaceDoubleSpace(Join(accepted, <<" ", "a", "n", "d", " ">>)))
    IN  StripChars(CollapseWhitespace(RemoveChars(RemoveChars(authors_raw, {"*"}), Digits)),
                   {",", " "})

\* re.search(r"\[(.+?)\]", line): the span of group 1
ClassSearch(line) ==
    LET hits == {p \in 0..(Len(line) - 1) :
                    At(line, p) = "[" /\ \E q \in (p + 2)..(Len(line) - 1) : At(line, q) = "]"}
    IN  IF hits = {} THEN [found |-> FALSE, from |-> -1, to |-> -1]
        ELSE LET p == CHOOSE h \in hits : \A g \in hits : h <= g
                 q == CHOOSE c \in (p + 2)..(Len(line) - 1) :
                          /\ At(line, c) = "]"
                          /\ \A d \in (p + 2)..(c - 1) : At(line, d) # "]"
             IN  [found |-> TRUE, from |-> p + 1, to |-> q]

\* re.search(r"(19|20)\d{2}", line): the span of the match
YearSearch(line) ==
    LET hits == {p \in 0..(Len(line) - 4) :
                    /\ Slice(line, p, p + 2) \in {<<"1", "9">>, <<"2", "0">>}
                    /\ At(line, p + 2) \in Digits
                    /\ At(line, p + 3) \in Digits}
    IN  IF hits = {} THEN [found |-> FALSE, from |-> -1, to |-> -1]
        ELSE LET p == CHOOSE h \in hits : \A g \in hits : h <= g
             IN  [found |-> TRUE, from |-> p, to |-> p + 4]

\* YearOf calling group on whatever the search returned
YearOfUnguarded(line) ==
    LET year_match == YearSearch(line) IN
    IF year_match.found
    THEN [raised |-> FALSE, str |-> Slice(line, year_match.from, year_match.to)]
    ELSE [raised |-> TRUE, str |-> <<>>]

\* year = ""; if year_match: year = year_match.group(0)
YearOf(line) ==
    LET year_match == YearSearch(line) IN
    IF year_match.found
    THEN [raised |-> FALSE, str |-> Slice(line, year_match.from, year_match.to)]
    ELSE [raised |-> FALSE, str |-> <<>>]

\* primary_class = ""; if class_match: primary_class = class_match.group(1)
ClassOf(line) ==
    LET class_match == ClassSearch(line) IN
    IF class_match.found
    THEN [raised |-> FALSE, str |-> Slice(line, class_match.from, class_match.to)]
    ELSE [raised |-> FALSE, str |-> <<>>]

\* the whole function
extract_basic_metadata(s) ==
    LET h  == Header(s)
        t  == TitleLoop(h.header_lines, 0, FALSE, <<>>, 0)
        al == AuthorLines(h.header_lines, t.title_end_index)
    IN  [title         |-> TitleOf(t.title_lines),
         author        |-> AuthorOf(al),
         year          |-> IF h.arxiv_line # <<>> THEN YearOf(h.arxiv_line).str ELSE <<>>,
         primary_class |-> IF h.arxiv_line # <<>> THEN ClassOf(h.arxiv_line).str ELSE <<>>]

----------------------------------------------------------------------------
(* the inputs *)

MaxRaw     == 4   \* longest unstructured text
MaxQuoted  == 4   \* longest text after the opening quote of a value
MaxBraced  == 5   \* longest text after the opening brace of a value
MaxValue   == 3   \* longest text after the = of a field
MaxFields  == 2   \* most fields of a composed entry
MaxEntries == 3   \* most entries of a composed bibliography

StringsUpTo(A, n) == UNION {[1..k -> A] : k \in 0..n}

RECURSIVE Concat(_)
Concat(ss) == IF ss = <<>> THEN <<>> ELSE Head(ss) \o Concat(Tail(ss))

SeqsUpTo(A, n) == UNION {[1..k -> A] : k \in 0..n}

RawAlphabet    == {"@", "a", "{", "}", ","}
QuotedAlphabet == {"a", "\"", "\\", ",", " "}
BracedAlphabet == {"a", "{", "}", " "}
ValueAlphabet  == {"a", "{", "}", "\"", ",", " ", "\n"}

EntryHead == <<"@", "a", "{", "k", ",">>

\* field tokens of a composed entry
FieldPool ==
    << <<"t", "=", "{", "a", " ", "b", "}">>,
       <<"T", " ", "=", " ", "\"", "a", ",", "b", "\"">>,
       <<"n", "=", "a", "b">>,
       <<"n", "=", "{", "a", "{", "b", "}", "c", "}">>,
       <<"t", "=", "\"", "{", "a", "}", "\"">>,
       <<"s", "=", "\"", "a", "}", "\"">> >>

FieldJoins == << <<",", "\n", " ">>, <<"\n">> >>

\* a field of a composed entry: a token and what joins it to the next
FieldParts == (1..Len(FieldPool)) \X (1..Len(FieldJoins))

FieldOf(part) == FieldPool[part[1]] \o FieldJoins[part[2]]

\* entries of a composed bibliography; the last one never closes
EntryPool ==
    << [entry  |-> <<"@", "a", "{", "k", ",", "}">>,
        key    |-> <<"k">>, closed |-> TRUE],
       [entry  |-> <<"@", "m", "i", " ", "{", " ", "j", "1", ",", "n", "=", "{", "@", "a",
                     "{", "c", ",", "}", "}", ",", "}">>,
        key    |-> <<"j", "1">>, closed |-> TRUE],
       [entry  |-> <<"@", "a", "1", "{", "k", "2", ",", "\n", " ", "t", " ", "=", " ", "{",
                     "a", "}", "\n", "}">>,
        key    |-> <<"k", "2">>, closed |-> TRUE],
       [entry  |-> <<"@", "a", "{", "k", ",", "t", "=", "{", "a">>,
        key    |-> <<"k">>, closed |-> FALSE] >>

EntrySeps == << <<>>, <<"\n", " ">> >>

\* an entry of a composed bibliography: an entry and what separates it from
\* the next
EntryParts == (1..Len(EntryPool)) \X (1..Len(EntrySeps))

EntryOf(part) ==
    [entry  |-> EntryPool[part[1]].entry,
     key    |-> EntryPool[part[1]].key,
     closed |-> EntryPool[part[1]].closed,
     sep    |-> EntrySeps[part[2]]]

Inputs ==
    { [family |-> "raw", body |-> w, closed |-> FALSE, parts |-> <<>>] :
          w \in StringsUpTo(RawAlphabet, MaxRaw) }
    \cup
    { [family |-> "quoted", body |-> w, closed |-> TRUE, parts |-> <<>>] :
          w \in StringsUpTo(QuotedAlphabet, MaxQuoted) }
    \cup
    { [family |-> "braced", body |-> w, closed |-> TRUE, parts |-> <<>>] :
          w \in StringsUpTo(BracedAlphabet, MaxBraced) }
    \cup
    { [family |-> "value", body |-> w, closed |-> c, parts |-> <<>>] :
          w \in StringsUpTo(ValueAlphabet, MaxValue), c \in BOOLEAN }
    \cup
    { [family |-> "fields", body |-> <<>>, closed |-> TRUE, parts |-> ps] :
          ps \in SeqsUpTo(FieldParts, MaxFields) }
    \cup
    { [family |-> "entries", body |-> <<>>, closed |-> TRUE, parts |-> ps] :
          ps \in SeqsUpTo(EntryParts, MaxEntries) }

Closer(inp) == IF inp.closed THEN <<"}">> ELSE <<>>

TextOf(inp) ==
    CASE inp.family = "raw"     -> inp.body
      [] inp.family = "quoted"  -> EntryHead \o <<"T", "=", "\"">> \o inp.body \o Closer(inp)
      [] inp.family = "braced"  -> EntryHead \o <<"T", "=", "{">> \o inp.body \o Closer(inp)
      [] inp.family = "value"   -> EntryHead \o <<"T", "=">> \o inp.body \o Closer(inp)
      [] inp.family = "fields"  ->
            EntryHead \o Concat([n \in 1..Len(inp.parts) |-> FieldOf(inp.parts[n])]) \o <<"}">>
      [] inp.family = "entries" ->
            Concat([n \in 1..Len(inp.parts) |->
                       EntryOf(inp.parts[n]).entry \o EntryOf(inp.parts[n]).sep])

----------------------------------------------------------------------------
(* the run of main on one text: extract_entries, then parse_fields *)

NoKey == [found |-> FALSE, str |-> <<>>]

NoMetadata == [title |-> <<>>, author |-> <<>>, year |-> <<>>, primary_class |-> <<>>]

Init ==
    /\ input \in Inputs
    /\ text = TextOf(input)
    /\ phase = "scan"
    /\ idx = 0
    /\ entries = <<>>
    /\ scan_stop = [why |-> "", at |-> -1]
    /\ key = NoKey
    /\ fields_text = <<>>
    /\ i = 0
    /\ fields = <<>>
    /\ last = NoField
    /\ raised = FALSE
    /\ stalled = FALSE
    /\ page = <<>>
    /\ stage = "idle"
    /\ header_lines = <<>>
    /\ arxiv_line = <<>>
    /\ title_lines = <<>>
    /\ title_end_index = 0
    /\ author_lines = <<>>
    /\ metadata = NoMetadata

\* one iteration of the loop of extract_entries
ScanStep ==
    /\ phase = "scan"
    /\ LET r == EntryStep(text, idx, entries) IN
       /\ idx' = r.idx
       /\ entries' = r.entries
       /\ stalled' = (stalled \/ (~r.brk /\ r.idx <= idx))
       /\ phase' = IF r.brk THEN "key" ELSE "scan"
       /\ scan_stop' = IF r.brk THEN [why |-> r.why, at |-> r.at] ELSE scan_stop
    /\ UNCHANGED <<input, text, key, fields_text, i, fields, last, raised, metavars>>

\* parse_fields up to its scanning loop
ParseStart ==
    /\ phase = "key"
    /\ LET kb == KeyAndBody(text) IN
       /\ key' = [found |-> kb.found, str |-> kb.key]
       /\ fields_text' = kb.fields_text
       /\ phase' = IF kb.body THEN "fields" ELSE "done"
    /\ i' = 0
    /\ fields' = <<>>
    /\ UNCHANGED <<input, text, idx, entries, scan_stop, last, raised, stalled, metavars>>

\* the test of the scanning loop and, when it passes, one iteration
ParseStep ==
    /\ phase = "fields"
    /\ IF i >= Len(fields_text)
       THEN /\ phase' = "done"
            /\ UNCHANGED <<i, fields, last, raised, stalled>>
       ELSE LET r == FieldStep(fields_text, i, fields) IN
            /\ i' = r.i
            /\ fields' = r.fields
            /\ last' = r.last
            /\ raised' = (raised \/ r.raised)
            /\ stalled' = (stalled \/ (~r.brk /\ r.i <= i))
            /\ phase' = IF r.brk THEN "done" ELSE "fields"
    /\ UNCHANGED <<input, text, idx, entries, scan_stop, key, fields_text, metavars>>

Next == ScanStep \/ ParseStart \/ ParseStep

Spec == Init /\ [][Next]_vars

----------------------------------------------------------------------------
(* the run of extract_basic_metadata on one page *)

MaxLines == 3   \* most lines of a page

LinePool ==
    << <<>>,
      <<"a", "r", "X", "i", "v", ":", "1", " ", "[", "c", "]", " ", "2", "0", "2", "4">>,
      <<"a", "r", "X", "i", "v", ":", "x">>,
      <<"A", " ", " ", " ", "b">>,
      <<" ", "O", "n", " ", "w">>,
      <<"J", "o", " ", "W", "u">>,
      <<"J", "w", "\\", "s", "T", "w">>,
      <<"X", " ", "S", "c", "h", "o", "o", "l">>,
      <<"A", "b", "s", "t", "r", "a", "c", "t">>,
      <<"A", "l", " ", "X", "i", "*", "1">> >>

\* a page is its lines, each ended by a newline; a part is the index of a line
PageInputs ==
    { [family |-> "page", body |-> <<>>, closed |-> FALSE, parts |-> ls] :
          ls \in SeqsUpTo(1..Len(LinePool), MaxLines) }

PageOf(inp) == Concat([n \in 1..Len(inp.parts) |-> LinePool[inp.parts[n]] \o <<"\n">>])

InitMeta ==
    /\ input \in PageInputs
    /\ page = PageOf(input)
    /\ stage = "read"
    /\ header_lines = <<>>
    /\ arxiv_line = <<>>
    /\ title_lines = <<>>
    /\ title_end_index = 0
    /\ author_lines = <<>>
    /\ metadata = NoMetadata
    /\ raised = FALSE
    /\ text = <<>>
    /\ phase = "idle"
    /\ idx = 0
    /\ entries = <<>>
    /\ scan_stop = [why |-> "", at |-> -1]
    /\ key = NoKey
    /\ fields_text = <<>>
    /\ i = 0
    /\ fields = <<>>
    /\ last = NoField
    /\ stalled = FALSE

\* the split into lines and the loop that collects the header
ReadHeader ==
    /\ stage = "read"
    /\ header_lines' = Header(page).header_lines
    /\ arxiv_line' = Header(page).arxiv_line
    /\ stage' = "title"
    /\ UNCHANGED <<page, title_lines, title_end_index, author_lines, metadata, raised, bibvars>>

\* the title loop
RecoverTitle ==
    /\ stage = "title"
    /\ LET t == TitleLoop(header_lines, 0, FALSE, <<>>, 0) IN
       /\ title_lines' = t.title_lines
       /\ title_end_index' = t.title_end_index
    /\ stage' = "authors"
    /\ UNCHANGED <<page, header_lines, arxiv_line, author_lines, metadata, raised, bibvars>>

\* the author loop
RecoverAuthors ==
    /\ stage = "authors"
    /\ author_lines' = AuthorLines(header_lines, title_end_index)
    /\ stage' = "banner"
    /\ UNCHANGED <<page, header_lines, arxiv_line, title_lines, title_end_index, metadata,
                   raised, bibvars>>

\* year and class from the banner line, and the return
ReadBanner ==
    /\ stage = "banner"
    /\ LET c == IF arxiv_line # <<>> THEN ClassOf(arxiv_line)
                ELSE [raised |-> FALSE, str |-> <<>>]
           y == IF arxiv_line # <<>> THEN YearOf(arxiv_line)
                ELSE [raised |-> FALSE, str |-> <<>>]
       IN  /\ raised' = (c.raised \/ y.raised)
           /\ metadata' = IF c.raised \/ y.raised THEN metadata
                          ELSE [title         |-> TitleOf(title_lines),
                                author        |-> AuthorOf(author_lines),
                                year          |-> y.str,
                                primary_class |-> c.str]
    /\ stage' = "done"
    /\ UNCHANGED <<page, header_lines, arxiv_line, title_lines, title_end_index, author_lines,
                   bibvars>>

NextMeta == ReadHeader \/ RecoverTitle \/ RecoverAuthors \/ ReadBanner

SpecMeta == InitMeta /\ [][NextMeta]_vars

----------------------------------------------------------------------------
(* what the claims speak of *)

Count(s, c) == Cardinality({n \in 1..Len(s) : s[n] = c})

\* every closing brace of s closes an earlier opening brace of s, none stays open
Balanced(s) ==
    /\ Count(s, "{") = Count(s, "}")
    /\ \A n \in 1..Len(s) : Count(SubSeq(s, 1, n), "{") >= Count(SubSeq(s, 1, n), "}")

\* the value the mapping holds for a name
ValueOf(d, name) == d[CHOOSE n \in 1..Len(d) : d[n].name = name].value

HasName(d, name) == \E n \in 1..Len(d) : d[n].name = name

Pairs(d) == {<<d[n].name, d[n].value>> : n \in 1..Len(d)}

\* the brace that closes the one at index open (0-based), or -1: the first
\* index after it at which as many braces have closed as have opened
MatchingClose(ft, open) ==
    LET closes == {q \in (open + 1)..(Len(ft) - 1) :
                      Count(Slice(ft, open, q + 1), "{") = Count(Slice(ft, open, q + 1), "}")}
    IN  IF closes = {} THEN -1 ELSE CHOOSE q \in closes : \A r \in closes : q <= r

\* a quote at index q is escaped when an odd run of backslashes precedes it
BackslashesBefore(ft, q) ==
    LET starts == {b \in 0..q : \A r \in b..(q - 1) : At(ft, r) = "\\"}
    IN  q - (CHOOSE b \in starts : \A r \in starts : b <= r)

UnescapedQuote(ft, q) == At(ft, q) = "\"" /\ BackslashesBefore(ft, q) % 2 = 0

\* the first unescaped quote after index open, or -1
ClosingQuote(ft, open) ==
    LET qs == {q \in (open + 1)..(Len(ft) - 1) : UnescapedQuote(ft, q)}
    IN  IF qs = {} THEN -1 ELSE CHOOSE q \in qs : \A r \in qs : q <= r

\* @misc{key,\n name = {value},\n name = {value}\n}
RECURSIVE SerializePairs(_)
SerializePairs(d) ==
    IF d = <<>> THEN <<>>
    ELSE Head(d).name \o <<" ", "=", " ", "{">> \o Head(d).value \o <<"}">>
         \o (IF Len(d) > 1 THEN <<",", "\n">> ELSE <<>>) \o SerializePairs(Tail(d))

Serialize(k, d) ==
    <<"@", "m", "i", "s", "c", "{">> \o k \o <<",", "\n">> \o SerializePairs(d) \o <<"\n", "}">>

----------------------------------------------------------------------------
(* C1 *)

\* C1 (as claimed): a value opened by a double quote runs to the next
\* unescaped double quote, and the value recorded under the field's name is
\* the text between the two quotes, trimmed.
C1_QuotedValueToUnescapedQuote ==
    (last.mode = "quote" /\ ClosingQuote(fields_text, last.open) # -1) =>
        /\ HasName(fields, last.name)
        /\ ValueOf(fields, last.name) =
               Strip(Slice(fields_text, last.open + 1, ClosingQuote(fields_text, last.open)))

----------------------------------------------------------------------------
(* C5 *)

\* C5: a value opened by a brace whose matching closing brace is in the
\* field-list text is the text strictly between the two, trimmed, nested
\* braces kept as they are.
C5_BracedValueKeepsNestedBraces ==
    (last.mode = "brace" /\ MatchingClose(fields_text, last.open) # -1) =>
        /\ HasName(fields, last.name)
        /\ ValueOf(fields, last.name) =
               Strip(Slice(fields_text, last.open + 1, MatchingClose(fields_text, last.open)))

\* a braced value with braces nested two deep has been recorded
C5_Witness ==
    /\ last.mode = "brace"
    /\ MatchingClose(fields_text, last.open) # -1
    /\ \E n \in 1..Len(last.value) :
           /\ last.value[n] = "{"
           /\ \E m \in (n + 1)..Len(last.value) : last.value[m] = "{"
    /\ Balanced(last.value)

----------------------------------------------------------------------------
(* C2 *)

RoundTrips ==
    LET again == parse_fields(Serialize(key.str, fields))
    IN  again.found /\ Pairs(again.fields) = Pairs(fields)

----------------------------------------------------------------------------
(* C3 *)

\* an emitted entry ends with the brace that closes its first one
ClosedEntry(e) ==
    /\ e # <<>>
    /\ e[Len(e)] = "}"
    /\ Count(e, "{") = Count(e, "}")

\* C3: when the scan stopped at a match whose braces never close, the output
\* is what the text before that match alone gives, and every emitted entry
\* is closed: nothing of the match or of what follows it is emitted.
C3_NoPartialEntry ==
    (phase # "scan" /\ scan_stop.why = "unclosed") =>
        /\ entries = extract_entries(Slice(text, 0, scan_stop.at))
        /\ \A n \in 1..Len(entries) : ClosedEntry(entries[n])
        /\ Len(Concat(entries)) <= scan_stop.at

\* the scan stopped at an unclosed match after emitting an entry, with a
\* closed entry still to come in the text
C3_Witness ==
    /\ phase # "scan"
    /\ scan_stop.why = "unclosed"
    /\ Len(entries) = 1
    /\ input.family = "entries"
    /\ Len(input.parts) = 3
    /\ EntryOf(input.parts[3]).closed

----------------------------------------------------------------------------
(* C4 *)

WellFormedBibliography ==
    /\ input.family = "entries"
    /\ \A n \in 1..Len(input.parts) : EntryOf(input.parts[n]).closed

\* C4: of a text made of well-formed entries separated by whitespace at
\* most, extract_entries returns the entries, each whole, in order, and
\* parse_fields of each returns its key.
C4_EntriesInOrder ==
    (WellFormedBibliography /\ phase # "scan") =>
        /\ entries = [n \in 1..Len(input.parts) |-> EntryOf(input.parts[n]).entry]
        /\ \A n \in 1..Len(entries) :
               /\ parse_fields(entries[n]).found
               /\ parse_fields(entries[n]).key = EntryOf(input.parts[n]).key

\* two well-formed entries, the first holding an @word{ of its own in a value
C4_Witness ==
    /\ WellFormedBibliography
    /\ phase # "scan"
    /\ Len(input.parts) >= 2
    /\ Len(entries) = Len(input.parts)
    /\ EntryStartSearch(entries[1], 1).found
    /\ EntryOf(input.parts[1]).sep = <<>>

----------------------------------------------------------------------------
(* C7 *)

\* C7: neither function raises, no iteration of their loops leaves its
\* cursor where it was, the cursors stay within the text, and parse_fields
\* returns no key and an empty mapping, or a non-empty key and a mapping.
C7_Total ==
    /\ ~raised
    /\ ~stalled
    /\ idx \in 0..Len(text)
    /\ i \in 0..(Len(fields_text) + 1)
    /\ phase = "done" =>
           \/ ~key.found /\ fields = <<>>
           \/ key.found /\ key.str # <<>>

\* the run ended after the scan broke at an unclosed match and the field
\* loop broke at a name with nothing after its =
C7_Witness ==
    /\ phase = "done"
    /\ key.found
    /\ scan_stop.why = "unclosed"
    /\ i = Len(fields_text)
    /\ fields_text # <<>>
    /\ fields_text[Len(fields_text)] = "="

----------------------------------------------------------------------------
(* what the claims about the front matter speak of *)

IsBlank(line) == Strip(line) = <<>>

IsBanner(line) == StartsWith(Strip(line), Banner)

NonBanner(header) == SelectSeq(header, LAMBDA l : ~IsBanner(l))

Stripped(ls) == [n \in 1..Len(ls) |-> Strip(ls[n])]

NoBlankLine(header) == \A n \in 1..Len(header) : ~IsBlank(header[n])

\* the first run of consecutive non-blank lines among the non-banner lines
FirstRun(header) ==
    LET nb     == NonBanner(header)
        starts == {n \in 1..Len(nb) : ~IsBlank(nb[n])}
    IN  IF starts = {} THEN <<>>
        ELSE LET f     == CHOOSE n \in starts : \A m \in starts : n <= m
                 stops == {n \in (f + 1)..Len(nb) : IsBlank(nb[n])}
                 e     == IF stops = {} THEN Len(nb) + 1
                          ELSE CHOOSE n \in stops : \A m \in stops : n <= m
             IN  Stripped(SubSeq(nb, f, e - 1))

NoAdjacentSpaces(s) == \A n \in 1..(Len(s) - 1) : ~(s[n] = " " /\ s[n + 1] = " ")

\* every run of spaces brought down to one space
RECURSIVE CollapseSpaces(_)
CollapseSpaces(s) ==
    IF Len(s) < 2 THEN s
    ELSE IF s[1] = " " /\ s[2] = " " THEN CollapseSpaces(Tail(s))
    ELSE <<s[1]>> \o CollapseSpaces(Tail(s))

\* the whitespace-separated tokens of a line
RECURSIVE Tokens(_)
Tokens(s) ==
    LET t == LStrip(s) IN
    IF t = <<>> THEN <<>>
    ELSE LET e == SpanUntil(t, 0, Whitespace)
         IN  <<Slice(t, 0, e)>> \o Tokens(Slice(t, e, Len(t)))

\* 2 to 4 tokens, each starting with an uppercase letter, none an
\* all-uppercase word longer than 2 characters
CapitalizedName(s) ==
    LET ts == Tokens(s) IN
    /\ Len(ts) \in 2..4
    /\ \A n \in 1..Len(ts) :
           /\ ts[n][1] \in UpperChars
           /\ ~(Len(ts[n]) > 2 /\ \A m \in 1..Len(ts[n]) : ts[n][m] \in UpperChars)

IsStr(v) == DOMAIN v = 1..Len(v) /\ \A n \in 1..Len(v) : v[n] \in STRING

----------------------------------------------------------------------------
(* C6 *)

\* C6 (as claimed): a header with no blank line before the abstract gives
\* an empty title.
C6_NoBlankLineGivesEmptyTitle ==
    (stage = "done" /\ NoBlankLine(header_lines)) => metadata.title = <<>>

\* C6 (amended): of a header with no blank line before the abstract the
\* title is all its non-banner lines, trimmed and joined; it is empty only
\* when there is no such line.
C6_NoBlankLineGivesWholeHeader ==
    (stage = "done" /\ NoBlankLine(header_lines)) =>
        /\ metadata.title =
               Strip(ReplaceDoubleSpace(Join(Stripped(NonBanner(header_lines)), <<" ">>)))
        /\ metadata.title = <<>> <=> NonBanner(header_lines) = <<>>

\* a page cut at its abstract line, two title lines and no blank line before it
C6_Witness ==
    /\ stage = "done"
    /\ NoBlankLine(header_lines)
    /\ Len(header_lines) < Len(LinesOf(page))
    /\ Len(NonBanner(header_lines)) = 2
    /\ metadata.title # <<>>

----------------------------------------------------------------------------
(* C8 *)

\* C8: nothing is raised, and the returned record has the four fields
\* title, author, year and primary_class, each a string.
C8_Total ==
    /\ stage # "idle" => ~raised
    /\ stage = "done" =>
           /\ DOMAIN metadata = {"title", "author", "year", "primary_class"}
           /\ \A k \in DOMAIN metadata : IsStr(metadata[k])

\* a banner line with neither a year nor a class in it
C8_Witness ==
    /\ stage = "done"
    /\ arxiv_line # <<>>
    /\ metadata.year = <<>>
    /\ metadata.primary_class = <<>>
    /\ metadata.title # <<>>

----------------------------------------------------------------------------
(* C9 *)

\* C9 (as claimed): a line after the title block that is not blank, has no
\* comma, does not look like an affiliation and is a capitalized name of 2
\* to 4 tokens is an author line and is in the author field, whatever the
\* line after it.
C9_CapitalizedNameAccepted ==
    stage = "done" =>
        \A n \in (title_end_index + 2)..Len(header_lines) :
            LET stripped == Strip(header_lines[n]) IN
            (/\ stripped # <<>>
             /\ ~looks_like_affiliation(stripped)
             /\ \A m \in 1..Len(stripped) : stripped[m] # ","
             /\ CapitalizedName(stripped))
            => /\ \E m \in 1..Len(author_lines) : author_lines[m] = stripped
               /\ Contains(metadata.author, AuthorOf(<<stripped>>))

----------------------------------------------------------------------------
(* C10 *)

\* C10 (as claimed): the title is the first run of non-blank header lines,
\* banner skipped, trimmed, joined by one space with doubled spaces
\* collapsed, and has no two adjacent spaces.
C10_TitleOfFirstRunCollapsed ==
    stage = "done" =>
        /\ metadata.title = Strip(CollapseSpaces(Join(FirstRun(header_lines), <<" ">>)))
        /\ NoAdjacentSpaces(metadata.title)

\* what does hold: the title is the first run put through the one pass of
\* str.replace
TitleOfFirstRunOnePass ==
    stage = "done" =>
        metadata.title = Strip(ReplaceDoubleSpace(Join(FirstRun(header_lines), <<" ">>)))

====
